---- MODULE Spec2Model ----
(***************************************************************************)
(* Model of the uplink orchestration layer of switch-api (src/uplink.ts):  *)
(* connectUplink, setupHandlers, verifyUpstreamAssetDetails, sendPacket,   *)
(* registerPacketHandler / deregisterPacketHandler, getNativeMaxInFlight   *)
(* and disconnect, and of Eth.createPlugin (src/ledgers/eth.ts).           *)
(*                                                                         *)
(* The specifications share the variables:                                 *)
(*   Spec        the life cycle of one uplink (connect, capacity           *)
(*               emissions, handler registration, inbound deliveries,      *)
(*               teardown);                                                *)
(*   SpecRouter  the packet router of a connected uplink applied to        *)
(*               arbitrary destinations (strings are sequences of          *)
(*               one-character strings);                                   *)
(*   SpecSend    sendPacket calls on a connected uplink against the        *)
(*               accounting wrapper;                                       *)
(*   SpecRate    connecting and disconnecting while the exchange rate      *)
(*               moves;                                                    *)
(*   SpecTeardown    deliveries and sendPacket calls around disconnect;    *)
(*   SpecDeliveries  inbound deliveries whose handlers run concurrently;   *)
(*   SpecSlots   deliveries while the uplink connects and the handler      *)
(*               slots are replaced;                                       *)
(*   SpecEth     Eth.createPlugin under a moving gas price.                *)
(***************************************************************************)
EXTENDS Integers, Sequences, FiniteSets, TLC

VARIABLES
    pc,                 \* position of connectUplink / disconnect
    settler,            \* settler resolved by getOrCreateSettler
    pluginConnected,    \* transport connected
    disconnectCalls,    \* invocations of plugin.disconnect()
    upstream,           \* result of the asset-details handshake
    clientAddress,      \* resolved ILP address
    outgoingCapacity,   \* uplink.outgoingCapacity$.value
    incomingCapacity,   \* uplink.incomingCapacity$.value
    totalReceived,      \* uplink.totalReceived$.value
    clLatest,           \* latest values held inside combineLatest
    balance,            \* balance$.value
    availableToSend,    \* availableToSend$.value
    availableToReceive, \* availableToReceive$.value
    subs,               \* subscriptions made on the capacity streams
    maxInFlight,        \* result of getNativeMaxInFlight
    wrapperCreated,     \* the PluginWrapper has been constructed
    dataHandler,        \* data handler registered on the wrapper
    objs,               \* heap: object id -> handler slots
    uplinkObj,          \* object id of the returned ReadyUplink, 0 = none
    registered,         \* handler last passed to registerPacketHandler
    server,             \* embedded STREAM server
    serverStop,         \* promise of stopStreamServer
    connectError,       \* step at which connectUplink rejected
    disconnectResult,   \* promise returned by disconnect
    transportResult,    \* promise of the plugin.disconnect() of teardown
    lastDispatch,       \* the latest inbound delivery made by the router
    payableBalance,     \* pluginWrapper.payableBalance$.value
    calls,              \* the sendPacket calls in flight
    exchangeRate,       \* current exchange rate of state.rateBackend
    converted,          \* convert(maxInFlightUsd, ...) before rounding
    wrapperConfig,      \* maxBalance / maxPacketAmount given to the wrapper
    steps,              \* steps connectUplink has completed, in order
    serverPlugin,       \* plugin handed to startStreamServer
    inflight,           \* inbound deliveries whose handler is running
    gasPrice,           \* what web3.eth.getGasPrice() resolves with
    ethPlugin           \* options Eth.createPlugin gave to EthereumPlugin

vars == <<pc, settler, pluginConnected, disconnectCalls, upstream,
          clientAddress, outgoingCapacity, incomingCapacity, totalReceived,
          clLatest, balance, availableToSend, availableToReceive, subs,
          maxInFlight, wrapperCreated, dataHandler, objs, uplinkObj,
          registered, server, serverStop, connectError, disconnectResult,
          transportResult, lastDispatch, payableBalance, calls,
          exchangeRate, converted, wrapperConfig, steps, serverPlugin,
          inflight, gasPrice, ethPlugin>>

connectVars == <<pc, settler, pluginConnected, disconnectCalls, upstream,
                 clientAddress, maxInFlight, wrapperCreated, dataHandler,
                 uplinkObj, server, serverStop, connectError,
                 disconnectResult, transportResult>>

streamVars == <<outgoingCapacity, incomingCapacity, totalReceived, clLatest,
                balance, availableToSend, availableToReceive, subs>>

handlerVars == <<objs, registered>>

sendVars == <<payableBalance, calls>>

rateVars == <<exchangeRate, converted, wrapperConfig>>

orderVars == <<steps, serverPlugin>>

ethVars == <<gasPrice, ethPlugin>>

----------------------------------------------------------------------------
(* Bounds *)

\* largest amount emitted on a capacity stream
MaxAmount == 2
\* longest destination delivered to the router in SpecRouter
MaxDestLen == 5
\* longest client address in SpecRouter
MaxAddrLen == 3
\* largest amount of a Prepare passed to sendPacket
MaxPacket == 2
\* the payable balance is kept within -PayableLimit .. PayableLimit
PayableLimit == 5

\* gas prices are 0 .. MaxGasPrice
MaxGasPrice == 6

----------------------------------------------------------------------------
(* Strings: sequences of one-character strings *)

Alphabet == {"g", "."}

Dot == <<".">>

Empty == <<>>

StringsOfLen(n) == [1..n -> Alphabet]

StringsUpTo(n) == UNION {StringsOfLen(k) : k \in 0..n}

\* String.prototype.indexOf, 1-based; 0 when pat does not occur
IndexOf(s, pat) ==
    LET starts == {i \in 1..(Len(s) - Len(pat) + 1) :
                      SubSeq(s, i, i + Len(pat) - 1) = pat}
    IN  IF starts = {} THEN 0
        ELSE CHOOSE i \in starts : \A j \in starts : i <= j

\* String.prototype.replace with a string pattern: first occurrence only
Replace(s, pat, rep) ==
    LET i == IndexOf(s, pat)
    IN  IF i = 0 THEN s
        ELSE SubSeq(s, 1, i - 1) \o rep \o SubSeq(s, i + Len(pat), Len(s))

\* String.prototype.split('.'): the segments between the dots
RECURSIVE Split(_)
Split(s) ==
    LET i == IndexOf(s, Dot)
    IN  IF i = 0 THEN <<s>>
        ELSE <<SubSeq(s, 1, i - 1)>> \o Split(SubSeq(s, i + 1, Len(s)))

\* Array.prototype.some(a => !!a): some segment is a non-empty string
SomeNonEmpty(segs) == \E i \in 1..Len(segs) : segs[i] # Empty

\* the same with every in place of some
EveryNonEmpty(segs) == \A i \in 1..Len(segs) : segs[i] # Empty

\* hasConnectionTag with every() in place of some()
HasConnectionTagEvery(destination, address) ==
    EveryNonEmpty(Split(Replace(destination, address, Empty)))

\* hasConnectionTag of setupHandlers
HasConnectionTag(destination, address) ==
    SomeNonEmpty(Split(Replace(destination, address, Empty)))

----------------------------------------------------------------------------
(* Values *)

Settlers == {[assetCode |-> "XRP", assetScale |-> 6],
             [assetCode |-> "ETH", assetScale |-> 9]}

AssetCodes == {s.assetCode : s \in Settlers}

AssetScales == {s.assetScale : s \in Settlers}

HandshakeAddresses == {<<"g">>, <<"g", ".", "g">>}

AssetDetails == [assetCode : AssetCodes, assetScale : AssetScales,
                 clientAddress : HandshakeAddresses]

NoDetails == [assetCode |-> "", assetScale |-> 0, clientAddress |-> Empty]

Amounts == 0..MaxAmount

\* the value slot of a combineLatest input that has not emitted yet
NoValue == -1

\* handlers of root-addressed packets
defaultIlpPrepareHandler == "defaultIlpPrepareHandler"

ClientHandlers == {"h1", "h2"}

\* handlers of connection-tagged packets
defaultDataHandler == "defaultDataHandler"

streamServerDataHandler == "streamServerDataHandler"

\* object ids of the heap; HandlersObj is the `handlers` literal
HandlersObj == 1

ObjIds == {1, 2}

DefaultHandlers == [streamServerHandler |-> defaultDataHandler,
                    streamClientHandler |-> defaultIlpPrepareHandler]

NoDispatch == [seq |-> 0, payload |-> "none", destination |-> Empty,
               parsed |-> FALSE, invoked |-> {}, handler |-> "none",
               outcome |-> "none"]

\* state.maxInFlightUsd, and the exchange rates of the rate backend, in
\* base units per RateScale USD
MaxInFlightUsd == 1

RateScale == 2

Rates == {3, 4, 5}

NoCall == [pc |-> "idle", amount |-> 0, payable |-> 0, prefund |-> 0,
           money |-> "none", data |-> "none", result |-> "none",
           sent |-> FALSE, order |-> <<>>]

Calls == {1, 2}

\* the invocations of the data handler that can be in flight at once
Deliveries == {1, 2}

\* no payload, no handler argument, no return value, no result
Nothing == [form |-> "none", value |-> "none", destination |-> Empty]

\* a slot with no delivery in it
NoDelivery == [state |-> "idle", arrival |-> 0, data |-> Nothing,
               route |-> "none", handler |-> "none", arg |-> Nothing,
               returned |-> Nothing, result |-> Nothing]

----------------------------------------------------------------------------
(* Pure helpers *)

\* sumAll: values.reduce((a, b) => a.plus(b))
sumAll(values) == values[1] + values[2]

\* combineLatest that forgets the other input's value on an emission
CombineLatestStoreReset(latest, i, v) ==
    [j \in 1..2 |-> IF j = i THEN v ELSE 0]

\* combineLatest: store the emission of input i, emit when all have a value
CombineLatestStore(latest, i, v) == [latest EXCEPT ![i] = v]

CombineLatestReady(latest) == \A i \in 1..2 : latest[i] # NoValue

\* balance$ after combineLatest stored an emission
BalanceAfter(latest, old) ==
    IF CombineLatestReady(latest) THEN sumAll(latest) ELSE old

\* convert(maxInFlightUsd, baseUnit(), rateBackend): the amount of base
\* units, as a count of 1/RateScale base units
ConvertUsd(rate) == MaxInFlightUsd * rate

\* the conversion rounded up instead of down
NativeMaxInFlightRoundUp(rate) ==
    (MaxInFlightUsd * rate + RateScale - 1) \div RateScale

\* convert(maxInFlightUsd, baseUnit(), rateBackend).dp(0, ROUND_DOWN)
NativeMaxInFlight(rate) == (MaxInFlightUsd * rate) \div RateScale

\* the wrapper before it is constructed
NoConfig == [maxBalance |-> 0, maxPacketAmount |-> 0]

\* new PluginWrapper({ maxBalance: maxInFlight, maxPacketAmount: maxInFlight })
WrapperConfig(limit) == [maxBalance |-> limit, maxPacketAmount |-> limit]

\* Object.assign(target, ...) returns a fresh copy instead of the target
ObjectAssignCopy(target) == 2

\* Object.assign(target, ...) returns its target
ObjectAssign(target) == target

\* incompatiblePeer that compares the asset code only
IncompatiblePeerCodeOnly(details, s) ==
    details.assetCode # s.assetCode

\* incompatiblePeer of verifyUpstreamAssetDetails
IncompatiblePeer(details, s) ==
    details.assetCode # s.assetCode \/ details.assetScale # s.assetScale

----------------------------------------------------------------------------
(* Capacity streams of the settlement engine and the derived subjects *)

\* the subscriptions connectUplink makes before getNativeMaxInFlight,
\* with the two mirrors of lines 136-140 moved up
WiredWithBalanceEarly == {"balance", "availableToSend", "availableToReceive"}

\* the subscriptions connectUplink makes before getNativeMaxInFlight
WiredWithBalance == {"balance"}

\* the subscriptions connectUplink makes after the wrapper is constructed
WiredWithWrapper == {"availableToSend", "availableToReceive"}

\* outgoingCapacity$.next(v)
EmitOutgoingCapacity(v) ==
    /\ outgoingCapacity' = v
    /\ IF "balance" \in subs
       THEN /\ clLatest' = CombineLatestStore(clLatest, 1, v)
            /\ balance' = BalanceAfter(clLatest', balance)
       ELSE UNCHANGED <<clLatest, balance>>
    /\ availableToSend' =
          IF "availableToSend" \in subs THEN v ELSE availableToSend
    /\ UNCHANGED <<incomingCapacity, totalReceived, availableToReceive, subs>>
    /\ UNCHANGED <<connectVars, handlerVars, sendVars, lastDispatch>>
    /\ UNCHANGED rateVars
    /\ UNCHANGED orderVars
    /\ UNCHANGED inflight
    /\ UNCHANGED ethVars

\* totalReceived$.next(v)
EmitTotalReceived(v) ==
    /\ totalReceived' = v
    /\ IF "balance" \in subs
       THEN /\ clLatest' = CombineLatestStore(clLatest, 2, v)
            /\ balance' = BalanceAfter(clLatest', balance)
       ELSE UNCHANGED <<clLatest, balance>>
    /\ UNCHANGED <<outgoingCapacity, incomingCapacity, availableToSend,
                   availableToReceive, subs>>
    /\ UNCHANGED <<connectVars, handlerVars, sendVars, lastDispatch>>
    /\ UNCHANGED rateVars
    /\ UNCHANGED orderVars
    /\ UNCHANGED inflight
    /\ UNCHANGED ethVars

\* incomingCapacity$.next(v)
EmitIncomingCapacity(v) ==
    /\ incomingCapacity' = v
    /\ availableToReceive' =
          IF "availableToReceive" \in subs THEN v ELSE availableToReceive
    /\ UNCHANGED <<outgoingCapacity, totalReceived, clLatest, balance,
                   availableToSend, subs>>
    /\ UNCHANGED <<connectVars, handlerVars, sendVars, lastDispatch>>
    /\ UNCHANGED rateVars
    /\ UNCHANGED orderVars
    /\ UNCHANGED inflight
    /\ UNCHANGED ethVars

----------------------------------------------------------------------------
(* connectUplink *)

\* const settler = await getOrCreateSettler(state, config.settlerType)
StepsOfSettler == <<"settler">>

\* await plugin.connect()
StepsOfConnect == <<"connect">>

\* await verifyUpstreamAssetDetails(settler)(plugin), then balance$ is
\* created and subscribed
StepsOfVerify == <<"assetCheck", "balance">>

\* the synchronous block after getNativeMaxInFlight with the two mirrors
\* subscribed before the wrapper is constructed
StepsOfWiringMirrorsFirst ==
    <<"maxInFlight", "availableToReceive", "availableToSend", "wrapper",
      "router">>

\* await getNativeMaxInFlight, new PluginWrapper, the subscriptions of
\* availableToReceive$ and availableToSend$, setupHandlers
StepsOfWiring ==
    <<"maxInFlight", "wrapper", "availableToReceive", "availableToSend",
      "router">>

\* await startStreamServer(...), return Object.assign(handlers, ...)
StepsOfServer == <<"server", "return">>

\* the first argument of startStreamServer
StreamServerPlugin == "plugin"

\* connectUplink(state)(uplink)(config) is called: getOrCreateSettler
ConnectUplink ==
    /\ pc = "init"
    /\ pc' = "getSettler"
    /\ UNCHANGED <<settler, pluginConnected, disconnectCalls, upstream,
                   clientAddress, maxInFlight, wrapperCreated, dataHandler,
                   uplinkObj, server, serverStop, connectError,
                   disconnectResult, transportResult>>
    /\ UNCHANGED <<streamVars, handlerVars, sendVars, lastDispatch>>
    /\ UNCHANGED rateVars
    /\ UNCHANGED orderVars
    /\ UNCHANGED inflight
    /\ UNCHANGED ethVars

\* getOrCreateSettler settles; on success plugin.connect() is called
GetSettlerSettles(ok) ==
    /\ pc = "getSettler"
    /\ IF ok
       THEN /\ pc' = "connect"
            /\ UNCHANGED connectError
       ELSE /\ pc' = "rejected"
            /\ connectError' = "getSettler"
    /\ UNCHANGED <<settler, pluginConnected, disconnectCalls, upstream,
                   clientAddress, maxInFlight, wrapperCreated, dataHandler,
                   uplinkObj, server, serverStop, disconnectResult,
                   transportResult>>
    /\ UNCHANGED <<streamVars, handlerVars, sendVars, lastDispatch>>
    /\ UNCHANGED rateVars
    /\ steps' = IF ok THEN steps \o StepsOfSettler ELSE steps
    /\ UNCHANGED serverPlugin
    /\ UNCHANGED inflight
    /\ UNCHANGED ethVars

\* plugin.connect() settles; on success the handshake is sent
PluginConnectSettles(ok) ==
    /\ pc = "connect"
    /\ IF ok
       THEN /\ pc' = "handshake"
            /\ pluginConnected' = TRUE
            /\ UNCHANGED connectError
       ELSE /\ pc' = "rejected"
            /\ connectError' = "connect"
            /\ UNCHANGED pluginConnected
    /\ UNCHANGED <<settler, disconnectCalls, upstream, clientAddress,
                   maxInFlight, wrapperCreated, dataHandler, uplinkObj,
                   server, serverStop, disconnectResult, transportResult>>
    /\ UNCHANGED <<streamVars, handlerVars, sendVars, lastDispatch>>
    /\ UNCHANGED rateVars
    /\ steps' = IF ok THEN steps \o StepsOfConnect ELSE steps
    /\ UNCHANGED serverPlugin
    /\ UNCHANGED inflight
    /\ UNCHANGED ethVars

\* fetchAssetDetails rejects
HandshakeFails ==
    /\ pc = "handshake"
    /\ pc' = "rejected"
    /\ connectError' = "handshake"
    /\ UNCHANGED <<settler, pluginConnected, disconnectCalls, upstream,
                   clientAddress, maxInFlight, wrapperCreated, dataHandler,
                   uplinkObj, server, serverStop, disconnectResult,
                   transportResult>>
    /\ UNCHANGED <<streamVars, handlerVars, sendVars, lastDispatch>>
    /\ UNCHANGED rateVars
    /\ UNCHANGED orderVars
    /\ UNCHANGED inflight
    /\ UNCHANGED ethVars

\* fetchAssetDetails resolves with the details of an incompatible peer:
\* verifyUpstreamAssetDetails calls plugin.disconnect()
HandshakeIncompatible(details) ==
    /\ pc = "handshake"
    /\ IncompatiblePeer(details, settler)
    /\ upstream' = details
    /\ disconnectCalls' = disconnectCalls + 1
    /\ pc' = "verifyDisconnect"
    /\ UNCHANGED <<settler, pluginConnected, clientAddress, maxInFlight,
                   wrapperCreated, dataHandler, uplinkObj, server,
                   serverStop, connectError, disconnectResult,
                   transportResult>>
    /\ UNCHANGED <<streamVars, handlerVars, sendVars, lastDispatch>>
    /\ UNCHANGED rateVars
    /\ UNCHANGED orderVars
    /\ UNCHANGED inflight
    /\ UNCHANGED ethVars

\* the plugin.disconnect() of verifyUpstreamAssetDetails settles, and the
\* error is thrown (or the rejection of disconnect propagates)
VerifyDisconnectSettles(ok) ==
    /\ pc = "verifyDisconnect"
    /\ pluginConnected' = IF ok THEN FALSE ELSE pluginConnected
    /\ connectError' = IF ok THEN "assetCheck" ELSE "verifyDisconnect"
    /\ pc' = "rejected"
    /\ UNCHANGED <<settler, disconnectCalls, upstream, clientAddress,
                   maxInFlight, wrapperCreated, dataHandler, uplinkObj,
                   server, serverStop, disconnectResult, transportResult>>
    /\ UNCHANGED <<streamVars, handlerVars, sendVars, lastDispatch>>
    /\ UNCHANGED rateVars
    /\ UNCHANGED orderVars
    /\ UNCHANGED inflight
    /\ UNCHANGED ethVars

\* fetchAssetDetails resolves with the details of a compatible peer:
\* balance$ is created and subscribed to combineLatest(outgoingCapacity$,
\* totalReceived$), then getNativeMaxInFlight is called
HandshakeCompatible(details) ==
    /\ pc = "handshake"
    /\ ~IncompatiblePeer(details, settler)
    /\ upstream' = details
    /\ clientAddress' = details.clientAddress
    /\ LET l0 == <<NoValue, NoValue>>
           l1 == CombineLatestStore(l0, 1, outgoingCapacity)
           b1 == BalanceAfter(l1, 0)
           l2 == CombineLatestStore(l1, 2, totalReceived)
       IN  /\ clLatest' = l2
           /\ balance' = BalanceAfter(l2, b1)
    /\ subs' = subs \cup WiredWithBalance
    /\ availableToSend' =
          IF "availableToSend" \in subs' THEN outgoingCapacity
          ELSE availableToSend
    /\ availableToReceive' =
          IF "availableToReceive" \in subs' THEN incomingCapacity
          ELSE availableToReceive
    /\ pc' = "maxInFlight"
    /\ UNCHANGED <<settler, pluginConnected, disconnectCalls, maxInFlight,
                   wrapperCreated, dataHandler, uplinkObj, server,
                   serverStop, connectError, disconnectResult,
                   transportResult>>
    /\ UNCHANGED <<outgoingCapacity, incomingCapacity, totalReceived>>
    /\ UNCHANGED <<handlerVars, sendVars, lastDispatch>>
    /\ UNCHANGED rateVars
    /\ steps' = steps \o StepsOfVerify
    /\ UNCHANGED serverPlugin
    /\ UNCHANGED inflight
    /\ UNCHANGED ethVars

\* getNativeMaxInFlight rejects
MaxInFlightFails ==
    /\ pc = "maxInFlight"
    /\ pc' = "rejected"
    /\ connectError' = "maxInFlight"
    /\ UNCHANGED <<settler, pluginConnected, disconnectCalls, upstream,
                   clientAddress, maxInFlight, wrapperCreated, dataHandler,
                   uplinkObj, server, serverStop, disconnectResult,
                   transportResult>>
    /\ UNCHANGED <<streamVars, handlerVars, sendVars, lastDispatch>>
    /\ UNCHANGED rateVars
    /\ UNCHANGED orderVars
    /\ UNCHANGED inflight
    /\ UNCHANGED ethVars

\* getNativeMaxInFlight resolves: the wrapper is constructed, the two
\* mirrors are subscribed, the handlers object is created, setupHandlers
\* installs the router and startStreamServer is called
MaxInFlightResolves(rate) ==
    /\ pc = "maxInFlight"
    /\ rate = exchangeRate
    /\ converted' = ConvertUsd(rate)
    /\ maxInFlight' = NativeMaxInFlight(rate)
    /\ wrapperConfig' = WrapperConfig(maxInFlight')
    /\ UNCHANGED exchangeRate
    /\ wrapperCreated' = TRUE
    /\ subs' = subs \cup WiredWithWrapper
    /\ availableToReceive' = incomingCapacity
    /\ availableToSend' = outgoingCapacity
    /\ objs' = [objs EXCEPT ![HandlersObj] = DefaultHandlers]
    /\ dataHandler' = "router"
    /\ pc' = "startServer"
    /\ UNCHANGED <<settler, pluginConnected, disconnectCalls, upstream,
                   clientAddress, uplinkObj, server, serverStop,
                   connectError, disconnectResult, transportResult>>
    /\ UNCHANGED <<outgoingCapacity, incomingCapacity, totalReceived,
                   clLatest, balance>>
    /\ UNCHANGED <<registered, sendVars, lastDispatch>>
    /\ steps' = steps \o StepsOfWiring
    /\ serverPlugin' = StreamServerPlugin
    /\ UNCHANGED inflight
    /\ UNCHANGED ethVars

\* startStreamServer rejects, before or after the server has registered
\* its data handler through registerServerHandler
StartServerFails(didRegister) ==
    /\ pc = "startServer"
    /\ objs' = IF didRegister
               THEN [objs EXCEPT ![HandlersObj].streamServerHandler =
                                     streamServerDataHandler]
               ELSE objs
    /\ pc' = "rejected"
    /\ connectError' = "startServer"
    /\ UNCHANGED <<settler, pluginConnected, disconnectCalls, upstream,
                   clientAddress, maxInFlight, wrapperCreated, dataHandler,
                   uplinkObj, server, serverStop, disconnectResult,
                   transportResult>>
    /\ UNCHANGED <<streamVars, registered, sendVars, lastDispatch>>
    /\ UNCHANGED rateVars
    /\ UNCHANGED orderVars
    /\ UNCHANGED inflight
    /\ UNCHANGED ethVars

\* startStreamServer resolves: the server has registered its data handler
\* and connectUplink returns Object.assign(handlers, {...})
StartServerResolves ==
    /\ pc = "startServer"
    /\ objs' = [objs EXCEPT ![HandlersObj].streamServerHandler =
                               streamServerDataHandler]
    /\ server' = "running"
    /\ uplinkObj' = ObjectAssign(HandlersObj)
    /\ pc' = "ready"
    /\ UNCHANGED <<settler, pluginConnected, disconnectCalls, upstream,
                   clientAddress, maxInFlight, wrapperCreated, dataHandler,
                   serverStop, connectError, disconnectResult,
                   transportResult>>
    /\ UNCHANGED <<streamVars, registered, sendVars, lastDispatch>>
    /\ UNCHANGED rateVars
    /\ steps' = steps \o StepsOfServer
    /\ UNCHANGED serverPlugin
    /\ UNCHANGED inflight
    /\ UNCHANGED ethVars

----------------------------------------------------------------------------
(* setupHandlers: the router installed as the wrapper's data handler *)

\* the payloads the transport hands to the data handler: undefined, an
\* empty Buffer, bytes that are no Prepare, and serialized Prepares
Payloads(dests) ==
    {[kind |-> "absent", destination |-> Empty],
     [kind |-> "empty", destination |-> Empty],
     [kind |-> "malformed", destination |-> Empty]}
    \cup {[kind |-> "prepare", destination |-> d] : d \in dests}

\* a guard that takes a Buffer of length 0 for a missing payload as well
IsFalsyOrEmpty(payload) == payload.kind \in {"absent", "empty"}

\* !data: true of undefined only; a Buffer of any length is an object
IsFalsy(payload) == payload.kind = "absent"

\* deserializeIlpPrepare(data) returns a Prepare, and throws otherwise
IsIlpPrepare(payload) == payload.kind = "prepare"

\* the data handler registered by setupHandlers, applied to one payload;
\* slots is the handlers object its two closures read
Route(payload, address, slots) ==
    IF IsFalsy(payload)
    THEN \* if (!data) throw new Error('no ilp packet included')
         [payload |-> payload.kind, destination |-> Empty,
          parsed |-> FALSE, invoked |-> {}, handler |-> "none",
          outcome |-> "error"]
    ELSE IF ~IsIlpPrepare(payload)
    THEN \* deserializeIlpPrepare throws
         [payload |-> payload.kind, destination |-> Empty,
          parsed |-> TRUE, invoked |-> {}, handler |-> "none",
          outcome |-> "error"]
    ELSE IF HasConnectionTag(payload.destination, address)
    THEN [payload |-> payload.kind, destination |-> payload.destination,
          parsed |-> TRUE, invoked |-> {"server"},
          handler |-> slots.streamServerHandler, outcome |-> "reply"]
    ELSE [payload |-> payload.kind, destination |-> payload.destination,
          parsed |-> TRUE, invoked |-> {"client"},
          handler |-> slots.streamClientHandler, outcome |-> "reply"]

\* the transport delivers one payload to the wrapper's data handler
Deliver(payload) ==
    /\ dataHandler = "router"
    /\ pluginConnected
    /\ LET d == Route(payload, clientAddress, objs[HandlersObj])
       IN  lastDispatch' =
              [seq |-> 1 - lastDispatch.seq, payload |-> d.payload,
               destination |-> d.destination, parsed |-> d.parsed,
               invoked |-> d.invoked, handler |-> d.handler,
               outcome |-> d.outcome]
    /\ UNCHANGED <<connectVars, streamVars, handlerVars, sendVars>>
    /\ UNCHANGED rateVars
    /\ UNCHANGED orderVars
    /\ UNCHANGED inflight
    /\ UNCHANGED ethVars

\* the Buffer handed to the data handler
Bytes(payload) ==
    [form |-> "bytes", value |-> payload.kind,
     destination |-> payload.destination]

\* deserializeIlpPrepare(data): the Prepare object read from the bytes
DeserializeIlpPrepare(data) ==
    [form |-> "prepare", value |-> "prepare", destination |-> data.destination]

\* a thrown error or rejected promise
Failure == [form |-> "error", value |-> "error", destination |-> Empty]

\* what a DataHandler can return: a Buffer of any content, or a failure
ServerReturns ==
    {[form |-> "bytes", value |-> v, destination |-> Empty] :
        v \in {"fulfillBytes", "rejectBytes", "otherBytes"}}
    \cup {Failure}

\* what an IlpPrepareHandler can return: a Fulfill, a Reject, or a failure
ClientReturns ==
    {[form |-> "reply", value |-> v, destination |-> Empty] :
        v \in {"fulfill", "reject"}}
    \cup {Failure}

\* serializeIlpReply(reply): the bytes of a Fulfill or of a Reject
SerializeIlpReply(reply) ==
    [form |-> "bytes",
     value |-> IF reply.value = "fulfill" THEN "fulfillBytes"
               ELSE "rejectBytes",
     destination |-> Empty]

\* a router that serializes what either handler returned
RouterResultSerializesAll(route, returned) ==
    IF returned.form = "error" THEN Failure
    ELSE SerializeIlpReply(returned)

\* what the data handler returns once the invoked handler has returned:
\* streamServerHandler(data) as it is, or
\* serializeIlpReply(await streamClientHandler(prepare))
RouterResult(route, returned) ==
    IF returned.form = "error" THEN Failure
    ELSE IF route = "server" THEN returned
    ELSE SerializeIlpReply(returned)

\* a data handler that takes one payload at a time
DeliveryArrivesSerialized(d, payload) ==
    /\ dataHandler = "router"
    /\ pluginConnected
    /\ inflight[d].state = "idle"
    /\ \A o \in Deliveries : inflight[o].state # "running"
    /\ LET r == Route(payload, clientAddress, objs[HandlersObj])
           n == Cardinality({o \in Deliveries : inflight[o].state # "idle"})
       IN  inflight' = [inflight EXCEPT ![d] =
              IF r.invoked = {}
              THEN [NoDelivery EXCEPT !.state = "done", !.arrival = n + 1,
                                      !.data = Bytes(payload),
                                      !.result = Failure]
              ELSE [NoDelivery EXCEPT
                      !.state = "running", !.arrival = n + 1,
                      !.data = Bytes(payload),
                      !.route = IF "server" \in r.invoked THEN "server"
                                ELSE "client",
                      !.handler = r.handler,
                      !.arg = IF "server" \in r.invoked THEN Bytes(payload)
                              ELSE DeserializeIlpPrepare(Bytes(payload))]]
    /\ UNCHANGED <<connectVars, streamVars, handlerVars, sendVars,
                   lastDispatch, rateVars, orderVars>>
    /\ UNCHANGED ethVars

\* the transport calls the data handler with one payload: the router fails
\* at once or invokes a handler and awaits it, while the transport is free
\* to call the data handler again
DeliveryArrives(d, payload) ==
    /\ dataHandler = "router"
    /\ pluginConnected
    /\ inflight[d].state = "idle"
    /\ LET r == Route(payload, clientAddress, objs[HandlersObj])
           n == Cardinality({o \in Deliveries : inflight[o].state # "idle"})
       IN  inflight' = [inflight EXCEPT ![d] =
              IF r.invoked = {}
              THEN [NoDelivery EXCEPT !.state = "done", !.arrival = n + 1,
                                      !.data = Bytes(payload),
                                      !.result = Failure]
              ELSE [NoDelivery EXCEPT
                      !.state = "running", !.arrival = n + 1,
                      !.data = Bytes(payload),
                      !.route = IF "server" \in r.invoked THEN "server"
                                ELSE "client",
                      !.handler = r.handler,
                      !.arg = IF "server" \in r.invoked THEN Bytes(payload)
                              ELSE DeserializeIlpPrepare(Bytes(payload))]]
    /\ UNCHANGED <<connectVars, streamVars, handlerVars, sendVars,
                   lastDispatch, rateVars, orderVars>>
    /\ UNCHANGED ethVars

\* a data handler that looks the slot up again when the handler returns
HandlerCompletesRereads(d, returned) ==
    /\ inflight[d].state = "running"
    /\ returned \in IF inflight[d].route = "server" THEN ServerReturns
                     ELSE ClientReturns
    /\ inflight' = [inflight EXCEPT
                       ![d].state = "done",
                       ![d].handler =
                           IF inflight[d].route = "server"
                           THEN objs[HandlersObj].streamServerHandler
                           ELSE objs[HandlersObj].streamClientHandler,
                       ![d].returned = returned,
                       ![d].result = RouterResult(inflight[d].route, returned)]
    /\ UNCHANGED <<connectVars, streamVars, handlerVars, sendVars,
                   lastDispatch, rateVars, orderVars>>
    /\ UNCHANGED ethVars

\* the handler invoked for delivery d returns or fails, and the data
\* handler settles with the router's result
HandlerCompletes(d, returned) ==
    /\ inflight[d].state = "running"
    /\ returned \in IF inflight[d].route = "server" THEN ServerReturns
                     ELSE ClientReturns
    /\ inflight' = [inflight EXCEPT
                       ![d].state = "done",
                       ![d].returned = returned,
                       ![d].result = RouterResult(inflight[d].route, returned)]
    /\ UNCHANGED <<connectVars, streamVars, handlerVars, sendVars,
                   lastDispatch, rateVars, orderVars>>
    /\ UNCHANGED ethVars

\* the transport has taken the result of a settled delivery
ForgetDelivery(d) ==
    /\ inflight[d].state = "done"
    /\ inflight' = [inflight EXCEPT ![d] = NoDelivery]
    /\ UNCHANGED <<connectVars, streamVars, handlerVars, sendVars,
                   lastDispatch, rateVars, orderVars>>
    /\ UNCHANGED ethVars

\* the destinations delivered in the life-cycle specification
LifeCycleDests == {clientAddress, clientAddress \o <<".", "g">>}

----------------------------------------------------------------------------
(* registerPacketHandler / deregisterPacketHandler *)

\* registerPacketHandler(handler)(uplink): uplink.streamClientHandler = handler
RegisterPacketHandler(handler) ==
    /\ uplinkObj # 0
    /\ objs' = [objs EXCEPT ![uplinkObj].streamClientHandler = handler]
    /\ registered' = handler
    /\ UNCHANGED <<connectVars, streamVars, sendVars, lastDispatch>>
    /\ UNCHANGED rateVars
    /\ UNCHANGED orderVars
    /\ UNCHANGED inflight
    /\ UNCHANGED ethVars

\* deregisterPacketHandler = registerPacketHandler(defaultIlpPrepareHandler)
DeregisterPacketHandler == RegisterPacketHandler(defaultIlpPrepareHandler)

----------------------------------------------------------------------------
(* disconnect *)

\* disconnect(uplink) that calls plugin.disconnect() without awaiting
\* stopStreamServer
DisconnectNoAwait ==
    /\ pc = "ready"
    /\ serverStop' = "pending"
    /\ disconnectCalls' = disconnectCalls + 1
    /\ transportResult' = "pending"
    /\ pc' = "disconnecting"
    /\ UNCHANGED <<settler, pluginConnected, upstream, clientAddress,
                   maxInFlight, wrapperCreated, dataHandler, uplinkObj,
                   server, connectError, disconnectResult>>
    /\ UNCHANGED <<streamVars, handlerVars, sendVars, lastDispatch>>
    /\ UNCHANGED rateVars
    /\ UNCHANGED orderVars
    /\ UNCHANGED inflight
    /\ UNCHANGED ethVars

\* disconnect(uplink) is called: stopStreamServer(uplink.streamServer)
Disconnect ==
    /\ pc = "ready"
    /\ serverStop' = "pending"
    /\ pc' = "stopping"
    /\ UNCHANGED <<settler, pluginConnected, disconnectCalls, upstream,
                   clientAddress, maxInFlight, wrapperCreated, dataHandler,
                   uplinkObj, server, connectError, disconnectResult,
                   transportResult>>
    /\ UNCHANGED <<streamVars, handlerVars, sendVars, lastDispatch>>
    /\ UNCHANGED rateVars
    /\ UNCHANGED orderVars
    /\ UNCHANGED inflight
    /\ UNCHANGED ethVars

\* a .catch that logs and rethrows
StopRethrow(outcome) == IF outcome = "rejected" THEN "throw" ELSE "continue"

\* .catch(err => log.error('Error stopping Stream server: ', err))
StopCatch(outcome) == "continue"

\* disconnect(uplink) that returns once the server has stopped, without
\* uplink.plugin.disconnect()
StopSettlesOnly(ok) ==
    /\ pc = "stopping"
    /\ serverStop = "pending"
    /\ serverStop' = IF ok THEN "resolved" ELSE "rejected"
    /\ server' = IF ok THEN "stopped" ELSE server
    /\ disconnectResult' = "resolved"
    /\ pc' = "disconnectDone"
    /\ UNCHANGED <<settler, pluginConnected, upstream, clientAddress,
                   maxInFlight, wrapperCreated, dataHandler, uplinkObj,
                   connectError, disconnectCalls, transportResult>>
    /\ UNCHANGED <<streamVars, handlerVars, sendVars, lastDispatch>>
    /\ UNCHANGED rateVars
    /\ UNCHANGED orderVars
    /\ UNCHANGED inflight
    /\ UNCHANGED ethVars

\* stopStreamServer settles; the rejection is caught and logged, then
\* uplink.plugin.disconnect() is called and its promise returned
StopSettles(ok) ==
    /\ pc = "stopping"
    /\ serverStop = "pending"
    /\ serverStop' = IF ok THEN "resolved" ELSE "rejected"
    /\ server' = IF ok THEN "stopped" ELSE server
    /\ IF StopCatch(serverStop') = "continue"
       THEN /\ disconnectCalls' = disconnectCalls + 1
            /\ transportResult' = "pending"
            /\ pc' = "disconnecting"
            /\ UNCHANGED disconnectResult
       ELSE /\ disconnectResult' = "rejected"
            /\ pc' = "disconnectDone"
            /\ UNCHANGED <<disconnectCalls, transportResult>>
    /\ UNCHANGED <<settler, pluginConnected, upstream, clientAddress,
                   maxInFlight, wrapperCreated, dataHandler, uplinkObj,
                   connectError>>
    /\ UNCHANGED <<streamVars, handlerVars, sendVars, lastDispatch>>
    /\ UNCHANGED rateVars
    /\ UNCHANGED orderVars
    /\ UNCHANGED inflight
    /\ UNCHANGED ethVars

\* the plugin.disconnect() of teardown settles; disconnect settles with it
TransportDisconnectSettles(ok) ==
    /\ pc = "disconnecting"
    /\ transportResult = "pending"
    /\ transportResult' = IF ok THEN "resolved" ELSE "rejected"
    /\ pluginConnected' = IF ok THEN FALSE ELSE pluginConnected
    /\ disconnectResult' = transportResult'
    /\ pc' = "disconnectDone"
    /\ UNCHANGED <<settler, disconnectCalls, upstream, clientAddress,
                   maxInFlight, wrapperCreated, dataHandler, uplinkObj,
                   server, serverStop, connectError>>
    /\ UNCHANGED <<streamVars, handlerVars, sendVars, lastDispatch>>
    /\ UNCHANGED rateVars
    /\ UNCHANGED orderVars
    /\ UNCHANGED inflight
    /\ UNCHANGED ethVars

----------------------------------------------------------------------------
(* Eth.createPlugin (ledgers/eth.ts) *)

\* const gas = 115636 + 50443 + 40201
Gas == 115636 + 50443 + 40201

\* maxInFlight = convert('0.0001', IUnit.Eth, IUnit.Gwei): 10^9 gwei per
\* ether, divided by 10^4
EthMaxInFlight == (10 ^ 9) \div (10 ^ 4)

\* gasPrice.times(gas)
TxFee(price) == price * Gas

\* txFee.times(1.5), exact in BigNumber: one and a half times an integer is
\* a multiple of one half, kept here as the integer it is when txFee is even
\* (Gas is even)
MaxCredit(price) == (TxFee(price) * 15) \div 10

\* no plugin created yet
NoEthPlugin == [created |-> FALSE, gasPrice |-> 0, maximum |-> 0,
                settleThreshold |-> 0, settleTo |-> 0]

\* a balance whose maximum leaves room for one packet in flight only
EthBalanceSingleInFlight(price) ==
    [created |-> TRUE, gasPrice |-> price,
     maximum |-> MaxCredit(price) + EthMaxInFlight,
     settleThreshold |-> MaxCredit(price),
     settleTo |-> MaxCredit(price)]

\* the balance option of new EthereumPlugin({balance: {...}, ...})
EthBalance(price) ==
    [created |-> TRUE, gasPrice |-> price,
     maximum |-> MaxCredit(price) + EthMaxInFlight * 2,
     settleThreshold |-> MaxCredit(price),
     settleTo |-> MaxCredit(price)]

\* the network's gas price moves
GasPriceChanges(price) ==
    /\ price # gasPrice
    /\ gasPrice' = price
    /\ UNCHANGED ethPlugin
    /\ UNCHANGED <<connectVars, streamVars, handlerVars, sendVars,
                   lastDispatch, rateVars, orderVars, inflight>>

\* createPlugin(serverUri): the gas price is fetched and the plugin is
\* constructed with the balance computed from it
CreatePlugin ==
    /\ ethPlugin' = EthBalance(gasPrice)
    /\ UNCHANGED gasPrice
    /\ UNCHANGED <<connectVars, streamVars, handlerVars, sendVars,
                   lastDispatch, rateVars, orderVars, inflight>>

----------------------------------------------------------------------------
(* The rate backend *)

\* the price oracle publishes another exchange rate
RateChanges(rate) ==
    /\ rate # exchangeRate
    /\ exchangeRate' = rate
    /\ UNCHANGED <<converted, wrapperConfig>>
    /\ UNCHANGED <<connectVars, streamVars, handlerVars, sendVars,
                   lastDispatch>>
    /\ UNCHANGED orderVars
    /\ UNCHANGED inflight
    /\ UNCHANGED ethVars

----------------------------------------------------------------------------
(* The life cycle of one uplink *)

\* the base uplink handed over by the settlement engine, before connectUplink
Init ==
    /\ pc = "init"
    /\ settler \in Settlers
    /\ pluginConnected = FALSE
    /\ disconnectCalls = 0
    /\ upstream = NoDetails
    /\ clientAddress = Empty
    /\ outgoingCapacity = 0
    /\ incomingCapacity = 0
    /\ totalReceived = 0
    /\ clLatest = <<NoValue, NoValue>>
    /\ balance = 0
    /\ availableToSend = 0
    /\ availableToReceive = 0
    /\ subs = {}
    /\ maxInFlight = 0
    /\ wrapperCreated = FALSE
    /\ dataHandler = "none"
    /\ objs = [o \in ObjIds |-> DefaultHandlers]
    /\ uplinkObj = 0
    /\ registered = defaultIlpPrepareHandler
    /\ server = "none"
    /\ serverStop = "none"
    /\ connectError = "none"
    /\ disconnectResult = "none"
    /\ transportResult = "none"
    /\ lastDispatch = NoDispatch
    /\ payableBalance = 0
    /\ calls = [c \in Calls |-> NoCall]
    /\ exchangeRate \in Rates
    /\ converted = 0
    /\ wrapperConfig = NoConfig
    /\ steps = <<>>
    /\ serverPlugin = "none"
    /\ inflight = [d \in Deliveries |-> NoDelivery]
    /\ gasPrice = 0
    /\ ethPlugin = NoEthPlugin

Next ==
    \/ \E v \in Amounts : EmitOutgoingCapacity(v)
    \/ \E v \in Amounts : EmitTotalReceived(v)
    \/ \E v \in Amounts : EmitIncomingCapacity(v)
    \/ ConnectUplink
    \/ \E ok \in BOOLEAN : GetSettlerSettles(ok)
    \/ \E ok \in BOOLEAN : PluginConnectSettles(ok)
    \/ HandshakeFails
    \/ \E details \in AssetDetails : HandshakeIncompatible(details)
    \/ \E ok \in BOOLEAN : VerifyDisconnectSettles(ok)
    \/ \E details \in AssetDetails : HandshakeCompatible(details)
    \/ MaxInFlightFails
    \/ \E rate \in Rates : MaxInFlightResolves(rate)
    \/ \E didRegister \in BOOLEAN : StartServerFails(didRegister)
    \/ StartServerResolves
    \/ \E p \in Payloads(LifeCycleDests) : Deliver(p)
    \/ \E h \in ClientHandlers : RegisterPacketHandler(h)
    \/ DeregisterPacketHandler
    \/ Disconnect
    \/ \E ok \in BOOLEAN : StopSettles(ok)
    \/ \E ok \in BOOLEAN : TransportDisconnectSettles(ok)

Spec == Init /\ [][Next]_vars

----------------------------------------------------------------------------
(* Properties of the life cycle *)

\* C1: once balance$ is subscribed to the combined streams, after every
\* emission of outgoingCapacity$ or totalReceived$ the value of balance$
\* is the latest outgoingCapacity plus the latest totalReceived.
C1_BalanceIsSumOfLatest ==
    "balance" \in subs => balance = outgoingCapacity + totalReceived

\* a connected uplink whose two sources have both emitted non-zero values
C1_Witness ==
    /\ pc = "ready"
    /\ outgoingCapacity = 1
    /\ totalReceived = 2
    /\ balance = 3

\* C2: when the handshake reports an assetCode or assetScale different from
\* the settler's, plugin.disconnect() is invoked exactly once, connectUplink
\* rejects, no ReadyUplink is returned and no wrapper, router or embedded
\* server has been created.
C2_MismatchDisconnectsAndRejects ==
    (/\ upstream # NoDetails
     /\ \/ upstream.assetCode # settler.assetCode
        \/ upstream.assetScale # settler.assetScale)
    => /\ pc \in {"verifyDisconnect", "rejected"}
       /\ disconnectCalls = 1
       /\ uplinkObj = 0
       /\ ~wrapperCreated
       /\ dataHandler = "none"
       /\ server = "none"
       /\ subs = {}

\* connectUplink has rejected after a handshake that reported the settler's
\* asset code with another scale
C2_Witness ==
    /\ pc = "rejected"
    /\ connectError = "assetCheck"
    /\ upstream.assetCode = settler.assetCode
    /\ upstream.assetScale # settler.assetScale
    /\ disconnectCalls = 1

\* C7: every root-addressed delivery is handled by the handler last passed
\* to registerPacketHandler, and by the default handler after
\* deregisterPacketHandler (and before any registration).
C7_RootPacketsUseRegisteredHandler ==
    [][(/\ lastDispatch'.seq # lastDispatch.seq
        /\ lastDispatch'.invoked = {"client"})
       => lastDispatch'.handler = registered]_vars

\* a root-addressed packet was handled by a registered handler
C7_Witness ==
    /\ lastDispatch.invoked = {"client"}
    /\ lastDispatch.destination = clientAddress
    /\ lastDispatch.handler = "h2"
    /\ registered = "h2"

\* C8: in disconnect, plugin.disconnect() is not invoked before the promise
\* of stopStreamServer has settled.
C8_ServerStopsBeforeTransport ==
    transportResult # "none" => serverStop \in {"resolved", "rejected"}

\* the transport is being disconnected after the server failed to stop
C8_Witness ==
    /\ pc = "disconnecting"
    /\ transportResult = "pending"
    /\ serverStop = "rejected"

\* C9: a failure to stop the embedded server is swallowed, plugin.disconnect()
\* is invoked exactly once, and disconnect settles as plugin.disconnect()
\* settled.
C9_DisconnectResultIsTransportResult ==
    pc = "disconnectDone"
    => /\ disconnectCalls = 1
       /\ transportResult \in {"resolved", "rejected"}
       /\ disconnectResult = transportResult
       /\ serverStop \in {"resolved", "rejected"}

\* disconnect resolved although the server failed to stop
C9_Witness ==
    /\ pc = "disconnectDone"
    /\ serverStop = "rejected"
    /\ disconnectResult = "resolved"

\* C10 as stated: a rejected connectUplink leaves no subscription on the
\* capacity streams, no data handler on the wrapper and no running server.
C10_NoPartialSideEffects ==
    pc = "rejected"
    => /\ subs = {}
       /\ dataHandler = "none"
       /\ server # "running"

\* C10 amended: a rejected connectUplink returns no uplink; a failure up to
\* and including the asset check leaves no subscription, wrapper or data
\* handler; a failure of the max-in-flight conversion leaves the balance
\* subscription; a failure of the server start leaves the three
\* subscriptions and the router installed, with the transport connected.
C10_PartialSideEffectsByStep ==
    pc = "rejected"
    => /\ uplinkObj = 0
       /\ connectError \in {"getSettler", "connect", "handshake",
                            "assetCheck", "verifyDisconnect"}
          => /\ subs = {}
             /\ ~wrapperCreated
             /\ dataHandler = "none"
             /\ server = "none"
       /\ connectError = "maxInFlight"
          => /\ subs = {"balance"}
             /\ ~wrapperCreated
             /\ dataHandler = "none"
             /\ server = "none"
       /\ connectError = "startServer"
          => /\ subs = {"balance", "availableToSend", "availableToReceive"}
             /\ wrapperCreated
             /\ dataHandler = "router"
             /\ pluginConnected

\* connectUplink rejected at the server start with everything wired
C10_Witness ==
    /\ pc = "rejected"
    /\ connectError = "startServer"
    /\ subs = {"balance", "availableToSend", "availableToReceive"}
    /\ dataHandler = "router"

----------------------------------------------------------------------------
(* A connected uplink: the state in which connectUplink leaves an uplink   *)
(* that was given the address addr by its peer, at the exchange rate rate  *)

XrpSettler == [assetCode |-> "XRP", assetScale |-> 6]

\* the lowest exchange rate of the rate backend
LowestRate == CHOOSE r \in Rates : \A q \in Rates : r <= q

Connected(addr, rate) ==
    /\ pc = "ready"
    /\ settler = XrpSettler
    /\ pluginConnected = TRUE
    /\ disconnectCalls = 0
    /\ upstream = [assetCode |-> XrpSettler.assetCode,
                   assetScale |-> XrpSettler.assetScale,
                   clientAddress |-> addr]
    /\ clientAddress = addr
    /\ outgoingCapacity = 0
    /\ incomingCapacity = 0
    /\ totalReceived = 0
    /\ clLatest = <<0, 0>>
    /\ balance = 0
    /\ availableToSend = 0
    /\ availableToReceive = 0
    /\ subs = WiredWithBalance \cup WiredWithWrapper
    /\ maxInFlight = NativeMaxInFlight(rate)
    /\ exchangeRate = rate
    /\ converted = ConvertUsd(rate)
    /\ wrapperConfig = WrapperConfig(NativeMaxInFlight(rate))
    /\ wrapperCreated = TRUE
    /\ dataHandler = "router"
    /\ objs = [o \in ObjIds |->
                 IF o = HandlersObj
                 THEN [DefaultHandlers EXCEPT !.streamServerHandler =
                                                 streamServerDataHandler]
                 ELSE DefaultHandlers]
    /\ uplinkObj = ObjectAssign(HandlersObj)
    /\ registered = defaultIlpPrepareHandler
    /\ server = "running"
    /\ serverStop = "none"
    /\ connectError = "none"
    /\ disconnectResult = "none"
    /\ transportResult = "none"
    /\ lastDispatch = NoDispatch
    /\ steps = StepsOfSettler \o StepsOfConnect \o StepsOfVerify
                  \o StepsOfWiring \o StepsOfServer
    /\ serverPlugin = StreamServerPlugin
    /\ inflight = [d \in Deliveries |-> NoDelivery]
    /\ gasPrice = 0
    /\ ethPlugin = NoEthPlugin

----------------------------------------------------------------------------
(* The router applied to arbitrary destinations *)

\* ILP addresses: non-empty segments separated by dots
Addresses(n) == {s \in StringsUpTo(n) : EveryNonEmpty(Split(s))}

\* the addresses a peer may assign to the uplink
RouterAddresses == Addresses(MaxAddrLen)

InitRouter ==
    /\ \E addr \in RouterAddresses : Connected(addr, LowestRate)
    /\ payableBalance = 0
    /\ calls = [c \in Calls |-> NoCall]

\* the payloads delivered to the router
RouterPayloads == Payloads(StringsUpTo(MaxDestLen))

NextRouter ==
    \E p \in RouterPayloads : Deliver(p)

SpecRouter == InitRouter /\ [][NextRouter]_vars

\* C3: a Prepare whose destination is exactly clientAddress is routed to the
\* client handler, one whose destination is clientAddress followed by a dot
\* and at least one non-empty segment is routed to the server handler, and
\* exactly one of the two handlers is invoked per delivered Prepare.
C3_RoutingByDestination ==
    LET d == lastDispatch.destination
        n == Len(clientAddress)
        tagged == /\ Len(d) > n + 1
                  /\ SubSeq(d, 1, n) = clientAddress
                  /\ d[n + 1] = "."
                  /\ \E i \in (n + 2)..Len(d) : d[i] # "."
    IN  lastDispatch.payload = "prepare"
        => /\ Cardinality(lastDispatch.invoked) = 1
           /\ lastDispatch.invoked \subseteq {"client", "server"}
           /\ d = clientAddress => lastDispatch.invoked = {"client"}
           /\ tagged => lastDispatch.invoked = {"server"}

\* a packet for g.g.g was routed to the server handler of the uplink g.g
C3_Witness ==
    /\ clientAddress = <<"g", ".", "g">>
    /\ lastDispatch.destination = <<"g", ".", "g", ".", "g">>
    /\ lastDispatch.invoked = {"server"}
    /\ lastDispatch.handler = streamServerDataHandler

\* C18 as stated: an empty or absent payload is not parsed, and neither it
\* nor an unparseable payload invokes a handler; the delivery fails.
C18_EmptyPayloadNotParsed ==
    /\ lastDispatch.payload \in {"absent", "empty"}
       => /\ ~lastDispatch.parsed
          /\ lastDispatch.invoked = {}
          /\ lastDispatch.outcome = "error"
    /\ lastDispatch.payload = "malformed"
       => /\ lastDispatch.invoked = {}
          /\ lastDispatch.outcome = "error"

\* C18 (amended): an absent payload fails the delivery without being parsed;
\* an empty payload and an unparseable payload are handed to the parser,
\* which rejects them, and the delivery fails; no handler is invoked in any
\* of the three cases.
C18_OnlyAbsentPayloadSkipsParser ==
    /\ lastDispatch.payload = "absent"
       => /\ ~lastDispatch.parsed
          /\ lastDispatch.invoked = {}
          /\ lastDispatch.outcome = "error"
    /\ lastDispatch.payload \in {"empty", "malformed"}
       => /\ lastDispatch.parsed
          /\ lastDispatch.invoked = {}
          /\ lastDispatch.outcome = "error"

\* an empty Buffer was delivered and the delivery failed in the parser
C18_Witness ==
    /\ lastDispatch.payload = "empty"
    /\ lastDispatch.parsed
    /\ lastDispatch.outcome = "error"

\* C17: the client handler is invoked only for a Prepare whose destination
\* is exactly clientAddress.
C17_ClientHandlerOnlyForOwnAddress ==
    "client" \in lastDispatch.invoked
        => lastDispatch.destination = clientAddress

----------------------------------------------------------------------------
(* sendPacket against the accounting wrapper *)

PacketAmounts == 0..MaxPacket

\* additionalPrefundRequired of sendPacket
AdditionalPrefundRequired(payable, amount) == payable - amount

\* pluginWrapper.sendMoney(amount): a transfer of 0 or less simply returns
SendMoneyStart(amount) == IF amount <= 0 THEN "noop" ELSE "pending"

\* the wrapper's payable balance after a settlement of amount completed
PayableAfterSettlement(payable, amount) == payable + amount

\* the wrapper's payable balance after a packet of amount was fulfilled
PayableAfterFulfill(payable, amount) == payable - amount

\* a .catch that logs the settlement error and fails the call with it
RethrowSettlementError(call) ==
    [call EXCEPT !.pc = "done", !.result = "rejected"]

\* .catch(err => log.error(`Error during outgoing settlement: `, err))
CatchSettlementError(call) == call

\* deserializeIlpReply: a Fulfill or a Reject is parsed, anything else throws
DeserializeIlpReply(reply) ==
    IF reply \in {"fulfill", "reject"} THEN "resolved" ELSE "rejected"

\* what pluginWrapper.sendData can settle with: the bytes of a Fulfill, of a
\* Reject, bytes that are no ILP reply, or a rejection
DataOutcomes == {"fulfill", "reject", "malformed", "error"}

\* the order in which sendPacket calls the wrapper
IssueOrder == <<"sendMoney", "sendData">>

\* sendPacket that starts only when no other call's settlement is pending
SendPacketSerialized(c, amount) ==
    /\ uplinkObj # 0
    /\ calls[c].pc = "idle"
    /\ \A o \in Calls \ {c} : calls[o].money # "pending"
    /\ LET prefund == AdditionalPrefundRequired(payableBalance, amount)
       IN  calls' = [calls EXCEPT ![c] =
                       [pc |-> "awaitReply", amount |-> amount,
                        payable |-> payableBalance, prefund |-> prefund,
                        money |-> SendMoneyStart(prefund),
                        data |-> "pending", result |-> "none",
                        sent |-> pluginConnected, order |-> IssueOrder]]
    /\ UNCHANGED payableBalance
    /\ UNCHANGED <<connectVars, streamVars, handlerVars, lastDispatch>>
    /\ UNCHANGED rateVars
    /\ UNCHANGED orderVars
    /\ UNCHANGED inflight
    /\ UNCHANGED ethVars

\* sendPacket(uplink, prepare): the payable balance is read, sendMoney is
\* called with the difference and, without awaiting it, sendData is called;
\* the Prepare goes out on the wire only over a connected transport
SendPacket(c, amount) ==
    /\ uplinkObj # 0
    /\ calls[c].pc = "idle"
    /\ LET prefund == AdditionalPrefundRequired(payableBalance, amount)
       IN  calls' = [calls EXCEPT ![c] =
                       [pc |-> "awaitReply", amount |-> amount,
                        payable |-> payableBalance, prefund |-> prefund,
                        money |-> SendMoneyStart(prefund),
                        data |-> "pending", result |-> "none",
                        sent |-> pluginConnected, order |-> IssueOrder]]
    /\ UNCHANGED payableBalance
    /\ UNCHANGED <<connectVars, streamVars, handlerVars, lastDispatch>>
    /\ UNCHANGED rateVars
    /\ UNCHANGED orderVars
    /\ UNCHANGED inflight
    /\ UNCHANGED ethVars

\* the settlement started by sendMoney completes or fails; it completes
\* only over a connected transport
SendMoneySettles(c, ok) ==
    /\ calls[c].money = "pending"
    /\ ok => pluginConnected
    /\ IF ok
       THEN /\ PayableAfterSettlement(payableBalance, calls[c].prefund)
                  <= PayableLimit
            /\ payableBalance' =
                  PayableAfterSettlement(payableBalance, calls[c].prefund)
            /\ calls' = [calls EXCEPT ![c].money = "settled"]
       ELSE /\ calls' = [calls EXCEPT ![c] =
                           CatchSettlementError(
                              [calls[c] EXCEPT !.money = "failed"])]
            /\ UNCHANGED payableBalance
    /\ UNCHANGED <<connectVars, streamVars, handlerVars, lastDispatch>>
    /\ UNCHANGED rateVars
    /\ UNCHANGED orderVars
    /\ UNCHANGED inflight
    /\ UNCHANGED ethVars

\* sendPacket that awaits the settlement before it returns the reply
SendDataSettlesAfterMoney(c, outcome) ==
    /\ calls[c].pc = "awaitReply"
    /\ calls[c].data = "pending"
    /\ calls[c].money # "pending"
    /\ ~calls[c].sent => outcome = "error"
    /\ IF outcome = "fulfill"
       THEN /\ PayableAfterFulfill(payableBalance, calls[c].amount)
                  >= -PayableLimit
            /\ payableBalance' =
                  PayableAfterFulfill(payableBalance, calls[c].amount)
       ELSE UNCHANGED payableBalance
    /\ calls' = [calls EXCEPT ![c].data = outcome,
                              ![c].pc = "done",
                              ![c].result =
                                  IF outcome = "error" THEN "rejected"
                                  ELSE DeserializeIlpReply(outcome)]
    /\ UNCHANGED <<connectVars, streamVars, handlerVars, lastDispatch>>
    /\ UNCHANGED rateVars
    /\ UNCHANGED orderVars
    /\ UNCHANGED inflight
    /\ UNCHANGED ethVars

\* pluginWrapper.sendData settles; sendPacket returns the parsed reply or
\* rejects; a Prepare that never went out has no reply
SendDataSettles(c, outcome) ==
    /\ calls[c].pc = "awaitReply"
    /\ calls[c].data = "pending"
    /\ ~calls[c].sent => outcome = "error"
    /\ IF outcome = "fulfill"
       THEN /\ PayableAfterFulfill(payableBalance, calls[c].amount)
                  >= -PayableLimit
            /\ payableBalance' =
                  PayableAfterFulfill(payableBalance, calls[c].amount)
       ELSE UNCHANGED payableBalance
    /\ calls' = [calls EXCEPT ![c].data = outcome,
                              ![c].pc = "done",
                              ![c].result =
                                  IF outcome = "error" THEN "rejected"
                                  ELSE DeserializeIlpReply(outcome)]
    /\ UNCHANGED <<connectVars, streamVars, handlerVars, lastDispatch>>
    /\ UNCHANGED rateVars
    /\ UNCHANGED orderVars
    /\ UNCHANGED inflight
    /\ UNCHANGED ethVars

\* the caller is done with a settled call whose settlement has settled too
ForgetCall(c) ==
    /\ calls[c].pc = "done"
    /\ calls[c].money # "pending"
    /\ calls' = [calls EXCEPT ![c] = NoCall]
    /\ UNCHANGED payableBalance
    /\ UNCHANGED <<connectVars, streamVars, handlerVars, lastDispatch>>
    /\ UNCHANGED rateVars
    /\ UNCHANGED orderVars
    /\ UNCHANGED inflight
    /\ UNCHANGED ethVars

\* a connected uplink whose wrapper loaded its payable balance from the store
InitSend ==
    /\ \E rate \in Rates : Connected(<<"g">>, rate)
    /\ payableBalance \in 0..MaxPacket
    /\ calls = [c \in Calls |-> NoCall]

NextSend ==
    \/ \E c \in Calls, amount \in PacketAmounts : SendPacket(c, amount)
    \/ \E c \in Calls, ok \in BOOLEAN : SendMoneySettles(c, ok)
    \/ \E c \in Calls, outcome \in DataOutcomes : SendDataSettles(c, outcome)
    \/ \E c \in Calls : ForgetCall(c)

SpecSend == InitSend /\ [][NextSend]_vars

\* C4 as stated: whenever the payable balance read by sendPacket is at least
\* the amount of the Prepare, the amount passed to sendMoney is 0 or less.
C4_NoPositiveTransferWhenPrefunded ==
    \A c \in Calls :
        (calls[c].pc # "idle" /\ calls[c].payable >= calls[c].amount)
        => calls[c].prefund <= 0

C6_SettlementFailureNeverFailsSend ==
    \A c \in Calls :
        /\ calls[c].money = "failed" => calls[c].data # "none"
        /\ calls[c].result # "none" => calls[c].pc = "done"
        /\ calls[c].pc = "done"
           => (calls[c].result = "rejected"
               <=> calls[c].data \in {"error", "malformed"})
        /\ calls[c].pc = "done"
           => (calls[c].result = "resolved"
               <=> calls[c].data \in {"fulfill", "reject"})

\* sendPacket returned a Fulfill although its settlement failed
C6_Witness ==
    \E c \in Calls :
        /\ calls[c].money = "failed"
        /\ calls[c].data = "fulfill"
        /\ calls[c].result = "resolved"

\* C13: sendPacket issues sendMoney before sendData and issues both without
\* waiting: while the settlement is pending the Prepare is already out, the
\* reply can be returned, and the settlement can settle before or after the
\* reply.
C13_SettlementNotAwaited ==
    \A c \in Calls :
        /\ calls[c].pc # "idle"
           => /\ calls[c].order = <<"sendMoney", "sendData">>
              /\ calls[c].data # "none"
        /\ calls[c].pc = "awaitReply" /\ calls[c].money = "pending"
           => /\ ENABLED SendDataSettles(c, "reject")
              /\ ENABLED SendMoneySettles(c, FALSE)
        /\ calls[c].pc = "done" /\ calls[c].money = "pending"
           => ENABLED SendMoneySettles(c, FALSE)

\* sendPacket has returned a Reply while its settlement is still pending
C13_Witness ==
    \E c \in Calls :
        /\ calls[c].pc = "done"
        /\ calls[c].result = "resolved"
        /\ calls[c].money = "pending"
        /\ calls[c].prefund > 0

\* C14: nothing serializes sendPacket: a call can start whatever the other
\* calls are doing, and its prefund is computed from the payable balance it
\* read when it started, which no pending settlement had raised yet.
C14_ConcurrentSendsReadStaleBalance ==
    \A c \in Calls :
        /\ calls[c].pc = "idle"
           => \A amount \in PacketAmounts : ENABLED SendPacket(c, amount)
        /\ calls[c].pc # "idle"
           => calls[c].prefund =
                 AdditionalPrefundRequired(calls[c].payable, calls[c].amount)

\* two calls in flight read the same payable balance and both started a
\* settlement from it, neither seeing the other's
C14_Witness ==
    /\ calls[1].pc = "awaitReply"
    /\ calls[2].pc = "awaitReply"
    /\ calls[1].payable = calls[2].payable
    /\ calls[1].payable = payableBalance
    /\ calls[1].money = "pending" /\ calls[1].prefund > 0
    /\ calls[2].money = "pending" /\ calls[2].prefund > 0

----------------------------------------------------------------------------
(* Connecting and disconnecting while the exchange rate moves *)

NextRate ==
    \/ \E rate \in Rates : RateChanges(rate)
    \/ ConnectUplink
    \/ \E ok \in BOOLEAN : GetSettlerSettles(ok)
    \/ \E ok \in BOOLEAN : PluginConnectSettles(ok)
    \/ HandshakeFails
    \/ \E details \in AssetDetails : HandshakeIncompatible(details)
    \/ \E ok \in BOOLEAN : VerifyDisconnectSettles(ok)
    \/ \E details \in AssetDetails : HandshakeCompatible(details)
    \/ MaxInFlightFails
    \/ \E rate \in Rates : MaxInFlightResolves(rate)
    \/ \E didRegister \in BOOLEAN : StartServerFails(didRegister)
    \/ StartServerResolves
    \/ Disconnect
    \/ \E ok \in BOOLEAN : StopSettles(ok)
    \/ \E ok \in BOOLEAN : TransportDisconnectSettles(ok)

SpecRate == Init /\ [][NextRate]_vars

----------------------------------------------------------------------------
(* Properties of the max-in-flight conversion *)

\* C11: maxInFlight is the converted USD ceiling rounded down to an integer
\* (converted - 1 < maxInFlight <= converted), the wrapper gets that value
\* as maxBalance and as maxPacketAmount, and neither changes afterwards,
\* whatever the exchange rate does.
C11_MaxInFlightFloorFixedAtConnect ==
    [][/\ wrapperCreated'
          => /\ maxInFlight' * RateScale <= converted'
             /\ converted' < (maxInFlight' + 1) * RateScale
             /\ wrapperConfig'.maxBalance = maxInFlight'
             /\ wrapperConfig'.maxPacketAmount = maxInFlight'
       /\ wrapperCreated
          => /\ maxInFlight' = maxInFlight
             /\ wrapperConfig' = wrapperConfig
             /\ converted' = converted]_vars

\* the conversion had a fractional part that was dropped, and the exchange
\* rate has changed since the uplink was connected
C11_Witness ==
    /\ pc = "ready"
    /\ converted # maxInFlight * RateScale
    /\ ConvertUsd(exchangeRate) # converted
    /\ NativeMaxInFlight(exchangeRate) # maxInFlight
    /\ wrapperConfig.maxBalance = maxInFlight

----------------------------------------------------------------------------
(* Traffic around the teardown of a connected uplink *)

\* the caller of the teardown specification sends one packet at a time
TeardownCalls == {1}

\* a connected uplink with no call in flight
InitTeardown ==
    /\ Connected(<<"g">>, LowestRate)
    /\ payableBalance \in 0..MaxPacket
    /\ calls = [c \in Calls |-> NoCall]

NextTeardown ==
    \/ Disconnect
    \/ \E ok \in BOOLEAN : StopSettles(ok)
    \/ \E ok \in BOOLEAN : TransportDisconnectSettles(ok)
    \/ \E p \in Payloads(LifeCycleDests) : Deliver(p)
    \/ \E c \in TeardownCalls, amount \in PacketAmounts : SendPacket(c, amount)
    \/ \E c \in TeardownCalls, ok \in BOOLEAN : SendMoneySettles(c, ok)
    \/ \E c \in TeardownCalls, outcome \in DataOutcomes :
          SendDataSettles(c, outcome)
    \/ \E c \in TeardownCalls : ForgetCall(c)

SpecTeardown == InitTeardown /\ [][NextTeardown]_vars

----------------------------------------------------------------------------
(* Properties of the order of connectUplink *)

\* position of a step among the completed steps, 0 when not completed
Pos(step) ==
    IF \E i \in 1..Len(steps) : steps[i] = step
    THEN CHOOSE i \in 1..Len(steps) : steps[i] = step
    ELSE 0

\* step b has completed only after step a had
Before(a, b) == Pos(b) # 0 => (Pos(a) # 0 /\ Pos(a) < Pos(b))

\* the router is installed only after the asset check has passed, and the
\* embedded server is started only with the router installed
RouterAfterCheckBeforeServer ==
    /\ dataHandler = "router"
       => /\ Pos("assetCheck") # 0
          /\ ~IncompatiblePeer(upstream, settler)
    /\ lastDispatch # NoDispatch => Pos("assetCheck") # 0
    /\ (pc = "startServer" \/ server # "none" \/ serverPlugin # "none")
       => dataHandler = "router"

\* C15 as stated: transport connect, asset check, the whole wiring of the
\* balance/capacity tracker (balance, availableToSend, availableToReceive),
\* wrapper construction, router installation, server start, return.
C15_TrackerWiredBeforeWrapper ==
    /\ Before("connect", "assetCheck")
    /\ Before("assetCheck", "balance")
    /\ Before("assetCheck", "availableToSend")
    /\ Before("assetCheck", "availableToReceive")
    /\ Before("balance", "wrapper")
    /\ Before("availableToSend", "wrapper")
    /\ Before("availableToReceive", "wrapper")
    /\ Before("wrapper", "router")
    /\ Before("router", "server")
    /\ Before("server", "return")
    /\ RouterAfterCheckBeforeServer

\* C15 (amended): connectUplink completes its steps in the order settler
\* lookup, transport connect, asset check, wiring of balance, max-in-flight
\* conversion, wrapper construction, wiring of availableToReceive and
\* availableToSend, router installation, server start, return; the router
\* is installed only after the asset check has passed and before the
\* embedded server starts.
C15_StepOrder ==
    /\ LET order == <<"settler", "connect", "assetCheck", "balance",
                      "maxInFlight", "wrapper", "availableToReceive",
                      "availableToSend", "router", "server", "return">>
       IN  /\ Len(steps) <= Len(order)
           /\ steps = SubSeq(order, 1, Len(steps))
    /\ "balance" \in subs <=> Pos("balance") # 0
    /\ "availableToSend" \in subs <=> Pos("availableToSend") # 0
    /\ wrapperCreated <=> Pos("wrapper") # 0
    /\ dataHandler = "router" <=> Pos("router") # 0
    /\ uplinkObj # 0 <=> Pos("return") # 0
    /\ RouterAfterCheckBeforeServer

\* connectUplink has returned and a packet has been routed
C15_Witness ==
    /\ pc = "ready"
    /\ Len(steps) = 11
    /\ lastDispatch.invoked # {}

\* C16: the embedded server is started against the accounting wrapper, so
\* what it sends goes through the wrapper and not the raw transport.
C16_ServerStartedOnWrapper ==
    /\ serverPlugin # "none" => serverPlugin = "pluginWrapper"
    /\ server = "running" => serverPlugin = "pluginWrapper"

----------------------------------------------------------------------------
(* Inbound deliveries in flight on a connected uplink *)

InitDeliveries ==
    /\ Connected(<<"g">>, LowestRate)
    /\ payableBalance = 0
    /\ calls = [c \in Calls |-> NoCall]

NextDeliveries ==
    \/ \E d \in Deliveries, p \in Payloads(LifeCycleDests) :
          DeliveryArrives(d, p)
    \/ \E d \in Deliveries, r \in ServerReturns \cup ClientReturns :
          HandlerCompletes(d, r)
    \/ \E d \in Deliveries : ForgetDelivery(d)
    \/ \E h \in ClientHandlers : RegisterPacketHandler(h)
    \/ DeregisterPacketHandler

SpecDeliveries == InitDeliveries /\ [][NextDeliveries]_vars

\* C19: a connection-tagged packet reaches the server handler as the bytes
\* that arrived and the delivery returns the very bytes that handler
\* returned; a root-addressed packet returns the serialization of the Reply
\* the client handler returned; a failure of the handler fails the delivery.
C19_ResultOfInvokedHandler ==
    \A d \in Deliveries :
        /\ inflight[d].route = "server"
           => /\ HasConnectionTag(inflight[d].data.destination, clientAddress)
              /\ inflight[d].arg = inflight[d].data
        /\ inflight[d].route = "client"
           => /\ ~HasConnectionTag(inflight[d].data.destination,
                                   clientAddress)
              /\ inflight[d].arg.form = "prepare"
              /\ inflight[d].arg.destination = inflight[d].data.destination
        /\ inflight[d].state = "done" /\ inflight[d].route = "server"
             /\ inflight[d].returned.form = "bytes"
           => inflight[d].result = inflight[d].returned
        /\ inflight[d].state = "done" /\ inflight[d].route = "client"
             /\ inflight[d].returned.form = "reply"
           => /\ inflight[d].result.form = "bytes"
              /\ inflight[d].result.value =
                    IF inflight[d].returned.value = "fulfill"
                    THEN "fulfillBytes" ELSE "rejectBytes"
        /\ inflight[d].state = "done" /\ inflight[d].returned.form = "error"
           => inflight[d].result.form = "error"

\* the server handler returned bytes that are no Reply and the delivery
\* returned them as they were
C19_Witness ==
    \E d \in Deliveries :
        /\ inflight[d].state = "done"
        /\ inflight[d].route = "server"
        /\ inflight[d].returned.value = "otherBytes"
        /\ inflight[d].result = inflight[d].returned

\* C20: the data handler can be called again while earlier deliveries are
\* in flight, a running handler can complete whatever the other deliveries
\* are doing, and every delivery settles with the router's result for the
\* handler invoked with its own payload.
C20_RouterReentrant ==
    \A d \in Deliveries :
        /\ inflight[d].state = "idle"
           => \A p \in Payloads(LifeCycleDests) : ENABLED DeliveryArrives(d, p)
        /\ inflight[d].state = "running"
           => /\ ENABLED HandlerCompletes(d, Failure)
              /\ inflight[d].arg.destination = inflight[d].data.destination
              /\ inflight[d].returned = Nothing
        /\ inflight[d].state = "done" /\ inflight[d].route # "none"
           => /\ inflight[d].arg.destination = inflight[d].data.destination
              /\ inflight[d].result =
                    RouterResult(inflight[d].route, inflight[d].returned)

\* delivery 2 arrived while delivery 1 was in flight and has settled with
\* its own handler's reply while delivery 1 is still running
C20_Witness ==
    /\ inflight[1].state = "running"
    /\ inflight[1].arrival = 1
    /\ inflight[2].state = "done"
    /\ inflight[2].arrival = 2
    /\ inflight[2].route = "server"
    /\ inflight[1].route = "client"
    /\ inflight[2].result = inflight[2].returned
    /\ inflight[2].returned.form = "bytes"

----------------------------------------------------------------------------
(* Inbound deliveries while the uplink connects and handlers are replaced *)

NextSlots ==
    \/ ConnectUplink
    \/ \E ok \in BOOLEAN : GetSettlerSettles(ok)
    \/ \E ok \in BOOLEAN : PluginConnectSettles(ok)
    \/ HandshakeFails
    \/ \E details \in AssetDetails : HandshakeIncompatible(details)
    \/ \E ok \in BOOLEAN : VerifyDisconnectSettles(ok)
    \/ \E details \in AssetDetails : HandshakeCompatible(details)
    \/ MaxInFlightFails
    \/ \E rate \in Rates : MaxInFlightResolves(rate)
    \/ \E didRegister \in BOOLEAN : StartServerFails(didRegister)
    \/ StartServerResolves
    \/ \E d \in Deliveries, p \in Payloads(LifeCycleDests) :
          DeliveryArrives(d, p)
    \/ \E d \in Deliveries, r \in ServerReturns \cup ClientReturns :
          HandlerCompletes(d, r)
    \/ \E d \in Deliveries : ForgetDelivery(d)
    \/ \E h \in ClientHandlers : RegisterPacketHandler(h)
    \/ DeregisterPacketHandler

SpecSlots == Init /\ [][NextSlots]_vars

\* C21: both slots hold the default handlers when the router is installed;
\* a delivery is dispatched to the handler its slot holds at that moment; a
\* running delivery keeps the handler it was dispatched to whatever
\* registerPacketHandler, deregisterPacketHandler or the server's
\* registration does to the slots meanwhile; and a replacement is what
\* later deliveries are dispatched to.
C21_SlotReadAtDispatch ==
    [][/\ dataHandler # "router" /\ dataHandler' = "router"
          => objs'[HandlersObj] = DefaultHandlers
       /\ \A d \in Deliveries :
            inflight[d].state = "running" /\ inflight'[d].state # "idle"
               => inflight'[d].handler = inflight[d].handler
       /\ \A d \in Deliveries :
            inflight[d].state = "idle" /\ inflight'[d].state = "running"
               => inflight'[d].handler =
                     IF inflight'[d].route = "server"
                     THEN objs[HandlersObj].streamServerHandler
                     ELSE objs[HandlersObj].streamClientHandler
       /\ registered' # registered
          => objs'[HandlersObj].streamClientHandler = registered'
       /\ server' = "running"
          => objs'[HandlersObj].streamServerHandler = streamServerDataHandler
      ]_vars

\* delivery 1 is still running in the handler its slot held when it was
\* dispatched, the slot has been replaced since, and delivery 2 has been
\* dispatched to the replacement
C21_Witness ==
    /\ inflight[1].state = "running"
    /\ inflight[2].state = "running"
    /\ inflight[1].route = inflight[2].route
    /\ inflight[1].arrival = 1
    /\ inflight[2].arrival = 2
    /\ inflight[1].handler # inflight[2].handler
    /\ inflight[2].handler =
          IF inflight[2].route = "server"
          THEN objs[HandlersObj].streamServerHandler
          ELSE objs[HandlersObj].streamClientHandler

----------------------------------------------------------------------------
(* Eth.createPlugin under a moving gas price *)

GasPrices == 0..MaxGasPrice

NextEth ==
    \/ \E price \in GasPrices : GasPriceChanges(price)
    \/ CreatePlugin

SpecEth == Init /\ [][NextEth]_vars

\* C22: the plugin is created with settleThreshold = settleTo = maxCredit
\* and maximum = maxCredit + 2 * maxInFlight, maxCredit being one and a half
\* times gasPrice * (115636 + 50443 + 40201); hence settleTo <= maximum and
\* maximum - settleTo is twice maxInFlight, whatever the gas price was.
C22_EthBalanceWindow ==
    ethPlugin.created
        => /\ ethPlugin.settleThreshold = ethPlugin.settleTo
           /\ 2 * ethPlugin.settleTo =
                 3 * ethPlugin.gasPrice * (115636 + 50443 + 40201)
           /\ ethPlugin.maximum = ethPlugin.settleTo + 2 * EthMaxInFlight
           /\ ethPlugin.settleTo <= ethPlugin.maximum
           /\ ethPlugin.maximum - ethPlugin.settleTo = 2 * 100000

\* a plugin was created at a positive gas price that has moved since
C22_Witness ==
    /\ ethPlugin.created
    /\ ethPlugin.gasPrice = MaxGasPrice
    /\ gasPrice # ethPlugin.gasPrice
    /\ ethPlugin.settleTo > 0

====
